---- MODULE Spec2Model ----
(***************************************************************************)
(* A model of the dual-stream phrase segmentation and transcript merge     *)
(* engine of src/AudioTranscriber.py (class AudioTranscriber), with the    *)
(* producers of src/AudioRecorder.py and the cleanup of src/main.py.       *)
(*                                                                         *)
(* Time is an integer count of 10 ms units (datetime values), so the       *)
(* phrase timeout of 3.05 s is 305 units and one second is 100 units.      *)
(* bytes objects are sequences; a text is a string; a formatted line       *)
(* f"{who}[{stamp}]: [{text}]\n\n" is the tuple <<who, stamp, text>>.      *)
(***************************************************************************)
EXTENDS Integers, Sequences, FiniteSets, TLC

\* ---------------------------------------------------------------- constants

\* PHRASE_TIMEOUT = 3.05 (seconds), in 10 ms units.
PHRASE_TIMEOUT == 305
MAX_PHRASES == 10
\* strftime("%Y-%m-%d %H:%M:%S") keeps whole seconds: 100 clock units each.
UnitsPerSecond == 100
\* "last_spoken": None
NoTime == -1
\* The local `path` before the first tempfile.mkstemp() has bound it.
NoPath == 0

Channels == {"You", "Speaker"}

\* ------------------------------------------------------------------- bounds

\* Chunks the two producers push in a run of the loop specification.
MaxChunks == 3
\* Runs of cleanup() (signal handler, finally clause, atexit) in a run.
MaxCleanups == 1
\* Calls made by the interface-level specification SpecApi.
MaxCalls == 3
\* chunks captured while the main thread runs cleanup() (SpecShutdown)
MaxShutdownChunks == 1

\* Texts the model can return (get_transcription): the empty string, "you"
\* in three cases, and a usable text; entries made from the usable text at
\* different times differ by their time.
Texts == {"", "you", "You", "YOU", "hi"}
\* Texts handed to update_transcript by SpecApi.
ApiTexts == {"hi", "hi there"}
\* Gaps between a channel's captures, around the phrase timeout.
ApiGaps == {PHRASE_TIMEOUT - 1, PHRASE_TIMEOUT, PHRASE_TIMEOUT + 1}
\* Gaps between captures in the loop specification.
Gaps == {1, PHRASE_TIMEOUT + 1}
\* Entry-list lengths SpecApi starts from.
PrefillLens == {0, 1, MAX_PHRASES}

VARIABLES
    clock,                      \* datetime.utcnow()
    audio_sources,              \* self.audio_sources
    transcript_data,            \* self.transcript_data
    transcript_changed_event,   \* self.transcript_changed_event.is_set()
    transcript_file_path,       \* self.transcript_file_path
    files,                      \* the transcript directory: path -> content
    tempfiles,                  \* the temporary .wav files that exist
    mic_queue, speaker_queue,   \* the two queue.Queue objects
    nchunks,                    \* chunks pushed so far
    pc,                         \* the loop thread's position
    mic_data, speaker_data,     \* locals of transcribe_audio_queue
    pending_transcriptions,
    path, idx, f,
    outcome,                    \* history: each channel's result in this tick
    main_pc, cleanups,          \* the main thread's position in cleanup()
    last_call,                  \* history: the last call that changed the state
    rendered,                   \* the value of the last get_transcript() call
    calls,                      \* calls made by SpecApi
    tick_start,                 \* history: the store when the tick began
    wav,                        \* the audio written to the temporary file
    pushed,                     \* history: the chunks put on each queue
    segmented,                  \* history: the chunks given to each segmenter
    frozen                      \* history: entries a phrase boundary closed

vars == <<clock, audio_sources, transcript_data, transcript_changed_event,
          transcript_file_path, files, tempfiles, mic_queue, speaker_queue,
          nchunks, pc, mic_data, speaker_data, pending_transcriptions,
          path, idx, f, outcome, main_pc, cleanups, last_call, rendered,
          calls, tick_start, wav, pushed, segmented, frozen>>

\* ------------------------------------------------------------ pure helpers

Min(a, b) == IF a < b THEN a ELSE b

\* str.lower() on the texts of the model.
Lower(s) ==
    CASE s = "You" -> "you"
      [] s = "YOU" -> "you"
      [] OTHER -> s

\* time_spoken.strftime("%Y-%m-%d %H:%M:%S")
strftime(t) == t \div UnitsPerSecond

\* f"{who_spoke}[{timestamp_str}]: [{text}]\n\n"
FormatLine(who_spoke, timestamp_str, txt) == <<who_spoke, timestamp_str, txt>>

\* The tuple update_transcript stores: (line, time_spoken).
Entry(who_spoke, txt, time_spoken) ==
    <<FormatLine(who_spoke, strftime(time_spoken), txt), time_spoken>>

\* ------------------------------------------------- update_transcript (store)

update_transcript_Append(transcript, new_phrase, who_spoke, txt, time_spoken) ==
    IF new_phrase \/ Len(transcript) = 0
    THEN (IF Len(transcript) > MAX_PHRASES
          THEN SubSeq(transcript, 1, Len(transcript) - 1)
          ELSE transcript) \o <<Entry(who_spoke, txt, time_spoken)>>
    ELSE [transcript EXCEPT ![1] = Entry(who_spoke, txt, time_spoken)]

update_transcript_AlwaysInsert(transcript, new_phrase, who_spoke, txt, time_spoken) ==
    <<Entry(who_spoke, txt, time_spoken)>> \o
        (IF Len(transcript) > MAX_PHRASES
         THEN SubSeq(transcript, 1, Len(transcript) - 1)
         ELSE transcript)

update_transcript_OverwriteLast(transcript, new_phrase, who_spoke, txt, time_spoken) ==
    IF new_phrase \/ Len(transcript) = 0
    THEN <<Entry(who_spoke, txt, time_spoken)>> \o
            (IF Len(transcript) > MAX_PHRASES
             THEN SubSeq(transcript, 1, Len(transcript) - 1)
             ELSE transcript)
    ELSE [transcript EXCEPT ![Len(transcript)] =
                Entry(who_spoke, txt, time_spoken)]

\* The new value of self.transcript_data[who_spoke]; new_phrase is
\* self.audio_sources[who_spoke]["new_phrase"].
update_transcript(transcript, new_phrase, who_spoke, txt, time_spoken) ==
    IF new_phrase \/ Len(transcript) = 0
    THEN <<Entry(who_spoke, txt, time_spoken)>> \o
            (IF Len(transcript) > MAX_PHRASES
             THEN SubSeq(transcript, 1, Len(transcript) - 1)
             ELSE transcript)
    ELSE [transcript EXCEPT ![1] = Entry(who_spoke, txt, time_spoken)]

\* ------------------------------- update_last_sample_and_phrase_status

update_last_sample_and_phrase_status_Ge(source_info, data, time_spoken) ==
    LET boundary == /\ source_info.last_spoken # NoTime
                    /\ time_spoken - source_info.last_spoken >= PHRASE_TIMEOUT
    IN [source_info EXCEPT
            !.last_sample = (IF boundary THEN <<>> ELSE @) \o data,
            !.new_phrase = boundary,
            !.last_spoken = time_spoken]

update_last_sample_and_phrase_status_NoReset(source_info, data, time_spoken) ==
    LET boundary == /\ source_info.last_spoken # NoTime
                    /\ time_spoken - source_info.last_spoken > PHRASE_TIMEOUT
    IN [source_info EXCEPT
            !.last_sample = @ \o data,
            !.new_phrase = boundary,
            !.last_spoken = time_spoken]

update_last_sample_and_phrase_status_DropOnReset(source_info, data, time_spoken) ==
    LET boundary == /\ source_info.last_spoken # NoTime
                    /\ time_spoken - source_info.last_spoken > PHRASE_TIMEOUT
    IN [source_info EXCEPT
            !.last_sample = IF boundary THEN <<>> ELSE @ \o data,
            !.new_phrase = boundary,
            !.last_spoken = time_spoken]

update_last_sample_and_phrase_status_Mono(source_info, data, time_spoken) ==
    LET boundary == /\ source_info.last_spoken # NoTime
                    /\ time_spoken - source_info.last_spoken > PHRASE_TIMEOUT
    IN [source_info EXCEPT
            !.last_sample = (IF boundary THEN <<>> ELSE @) \o data,
            !.new_phrase = boundary,
            !.last_spoken = time_spoken,
            !.channels = 1]

\* The new value of self.audio_sources[who_spoke].
update_last_sample_and_phrase_status(source_info, data, time_spoken) ==
    LET boundary == /\ source_info.last_spoken # NoTime
                    /\ time_spoken - source_info.last_spoken > PHRASE_TIMEOUT
    IN [source_info EXCEPT
            !.last_sample = (IF boundary THEN <<>> ELSE @) \o data,
            !.new_phrase = boundary,
            !.last_spoken = time_spoken]

\* ------------------------------------------------------------ get_transcript

RECURSIVE merge_SpeakerFirst(_, _)
merge_SpeakerFirst(a, b) ==
    IF Len(a) = 0 THEN b
    ELSE IF Len(b) = 0 THEN a
    ELSE IF Head(a)[2] > Head(b)[2]
         THEN <<Head(a)>> \o merge_SpeakerFirst(Tail(a), b)
         ELSE <<Head(b)>> \o merge_SpeakerFirst(a, Tail(b))

\* heapq.merge(a, b, key=lambda x: x[1], reverse=True): the heap holds the
\* head of each list under the key (time, -order), greatest first, so on
\* equal times the head of the first list is yielded first.
RECURSIVE merge(_, _)
merge(a, b) ==
    IF Len(a) = 0 THEN b
    ELSE IF Len(b) = 0 THEN a
    ELSE IF Head(a)[2] >= Head(b)[2]
         THEN <<Head(a)>> \o merge(Tail(a), b)
         ELSE <<Head(b)>> \o merge(a, Tail(b))

combined_transcript_SpeakerFirst(td) ==
    LET m == merge_SpeakerFirst(td["You"], td["Speaker"])
    IN  SubSeq(m, 1, Min(Len(m), MAX_PHRASES))

combined_transcript_Oldest(td) ==
    LET m == merge(td["You"], td["Speaker"])
    IN  SubSeq(m, Len(m) - Min(Len(m), MAX_PHRASES) + 1, Len(m))

\* combined_transcript after the slice [:MAX_PHRASES].
combined_transcript(td) ==
    LET m == merge(td["You"], td["Speaker"])
    IN  SubSeq(m, 1, Min(Len(m), MAX_PHRASES))

\* "".join(lines): the lines' parts, one after the other.
RECURSIVE join(_)
join(lines) ==
    IF Len(lines) = 0 THEN <<>> ELSE Head(lines) \o join(Tail(lines))

get_transcript(td) ==
    LET c == combined_transcript(td)
    IN  join([i \in 1..Len(c) |-> c[i][1]])

\* ------------------------------------------------------------- construction

SourceInfo(rate, width, chans) ==
    [sample_rate |-> rate, sample_width |-> width, channels |-> chans,
     last_sample |-> <<>>, last_spoken |-> NoTime, new_phrase |-> TRUE]

\* f.write("Transcript started at " + ... + " UTC\n\n")
StartedHeader(t) == <<"Transcript started at", strftime(t)>>
\* f.write("Transcript updated at " + ... + " UTC\n\n")
UpdatedHeader(t) == <<"Transcript updated at", strftime(t)>>

\* os.path.join(self.transcript_dir, f"transcript_{timestamp}.txt")
TranscriptPath(t) == strftime(t)

WriteFile_Append(fs, p, header, body) ==
    [q \in DOMAIN fs \cup {p} |->
        IF q = p
        THEN <<header, (IF p \in DOMAIN fs THEN fs[p][2] ELSE <<>>) \o body>>
        ELSE fs[q]]

\* open(p, 'w') then the writes: the file holds header and body only.
WriteFile(fs, p, header, body) ==
    [q \in DOMAIN fs \cup {p} |-> IF q = p THEN <<header, body>> ELSE fs[q]]

NoCall ==
    [op |-> "none", who |-> "You", txt |-> "", t |-> NoTime, data |-> <<>>,
     pre_transcript |-> <<>>, pre_source |-> SourceInfo(0, 0, 0)]

NoOutcome == [who \in Channels |-> <<"none", "">>]

\* The store as a tick finds it.
StoreNow ==
    [transcript_data |-> transcript_data,
     transcript_changed_event |-> transcript_changed_event,
     transcript_file_path |-> transcript_file_path,
     files |-> files]

\* The state after AudioTranscriber.__init__ and before the first statement
\* of transcribe_audio_queue; the queues were created empty in main().
Init ==
    /\ clock = 0
    /\ audio_sources = [who \in Channels |->
            IF who = "You" THEN SourceInfo(16000, 2, 1)
                           ELSE SourceInfo(48000, 2, 2)]
    /\ transcript_data = [who \in Channels |-> <<>>]
    /\ transcript_changed_event = FALSE
    /\ transcript_file_path = TranscriptPath(0)
    /\ files = WriteFile(<<>>, TranscriptPath(0), StartedHeader(0), <<>>)
    /\ tempfiles = {}
    /\ mic_queue = <<>>
    /\ speaker_queue = <<>>
    /\ nchunks = 0
    /\ pc = "drain_mic"
    /\ mic_data = <<>>
    /\ speaker_data = <<>>
    /\ pending_transcriptions = <<>>
    /\ path = NoPath
    /\ idx = 0
    /\ f = NoTime
    /\ outcome = NoOutcome
    /\ main_pc = "run"
    /\ cleanups = 0
    /\ last_call = NoCall
    /\ rendered = <<>>
    /\ calls = 0
    /\ tick_start = StoreNow
    /\ wav = <<>>
    /\ pushed = [who \in Channels |-> <<>>]
    /\ segmented = [who \in Channels |-> <<>>]
    /\ frozen = [who \in Channels |-> {}]

storeVars == <<transcript_data, transcript_changed_event,
               transcript_file_path, files>>
loopLocals == <<mic_data, speaker_data, pending_transcriptions, path, idx, f,
                outcome>>
mainVars == <<main_pc, cleanups>>
apiVars == <<rendered, calls>>
queueVars == <<mic_queue, speaker_queue, nchunks>>
histVars == <<pushed, segmented, frozen>>

\* ---------------------------------------------------------------- producers

put_Front(q, item) == <<item>> \o q

\* queue.Queue.put on an unbounded FIFO queue.
put(q, item) == Append(q, item)

\* The entries of a channel that a phrase boundary has closed, after a chunk
\* was segmented: the entry at index 0 joins them when the segmenter has
\* just reported a new phrase.
Closed(who, source_info) ==
    IF source_info.new_phrase /\ Len(transcript_data[who]) > 0
    THEN frozen[who] \cup {transcript_data[who][1]}
    ELSE frozen[who]

\* BaseRecorder.record_into_queue.record_callback: a capture thread puts
\* (data, datetime.utcnow()) on its queue; d is the time since the previous
\* capture of either thread.
record_callback(who) ==
    /\ nchunks < MaxChunks
    /\ \E d \in Gaps :
        /\ clock' = clock + d
        /\ IF who = "You"
           THEN /\ mic_queue' = put(mic_queue, <<<<nchunks + 1>>, clock'>>)
                /\ UNCHANGED speaker_queue
           ELSE /\ speaker_queue' = put(speaker_queue, <<<<nchunks + 1>>, clock'>>)
                /\ UNCHANGED mic_queue
        /\ pushed' = [pushed EXCEPT ![who] =
                            Append(@, <<<<nchunks + 1>>, clock'>>)]
    /\ nchunks' = nchunks + 1
    /\ UNCHANGED <<audio_sources, storeVars, tempfiles, pc, loopLocals,
                   mainVars, last_call, apiVars, tick_start, wav, segmented,
                   frozen>>

\* ------------------------------------------------- the loop: draining

SegmentCall(who, data, time_spoken) ==
    [op |-> "segment", who |-> who, txt |-> "", t |-> time_spoken,
     data |-> data, pre_transcript |-> transcript_data[who],
     pre_source |-> audio_sources[who]]

\* Lines 92-98: one turn of the inner loop on mic_queue.
DrainMic ==
    /\ pc = "drain_mic"
    /\ IF Len(mic_queue) > 0
       THEN LET data == Head(mic_queue)[1]
                time_spoken == Head(mic_queue)[2]
            IN  /\ mic_queue' = Tail(mic_queue)
                /\ audio_sources' = [audio_sources EXCEPT !["You"] =
                        update_last_sample_and_phrase_status(@, data, time_spoken)]
                /\ mic_data' = Append(mic_data, <<data, time_spoken>>)
                /\ last_call' = SegmentCall("You", data, time_spoken)
                /\ segmented' = [segmented EXCEPT !["You"] =
                                    Append(@, <<data, time_spoken>>)]
                /\ frozen' = [frozen EXCEPT !["You"] =
                                    Closed("You", audio_sources'["You"])]
                /\ UNCHANGED <<pc, speaker_data>>
       ELSE /\ pc' = "drain_speaker"
            /\ speaker_data' = <<>>
            /\ UNCHANGED <<mic_queue, audio_sources, mic_data, last_call,
                           segmented, frozen>>
    /\ UNCHANGED <<clock, storeVars, tempfiles, speaker_queue, nchunks,
                   pending_transcriptions, path, idx, f, outcome, mainVars,
                   apiVars, tick_start, wav, pushed>>

\* Lines 101-107: one turn of the inner loop on speaker_queue.
DrainSpeaker ==
    /\ pc = "drain_speaker"
    /\ IF Len(speaker_queue) > 0
       THEN LET data == Head(speaker_queue)[1]
                time_spoken == Head(speaker_queue)[2]
            IN  /\ speaker_queue' = Tail(speaker_queue)
                /\ audio_sources' = [audio_sources EXCEPT !["Speaker"] =
                        update_last_sample_and_phrase_status(@, data, time_spoken)]
                /\ speaker_data' = Append(speaker_data, <<data, time_spoken>>)
                /\ last_call' = SegmentCall("Speaker", data, time_spoken)
                /\ segmented' = [segmented EXCEPT !["Speaker"] =
                                    Append(@, <<data, time_spoken>>)]
                /\ frozen' = [frozen EXCEPT !["Speaker"] =
                                    Closed("Speaker", audio_sources'["Speaker"])]
                /\ UNCHANGED pc
       ELSE /\ pc' = "mic"
            /\ UNCHANGED <<speaker_queue, audio_sources, speaker_data,
                           last_call, segmented, frozen>>
    /\ UNCHANGED <<clock, storeVars, tempfiles, mic_queue, nchunks, mic_data,
                   pending_transcriptions, path, idx, f, outcome, mainVars,
                   apiVars, tick_start, wav, pushed>>

\* ------------------------------------- the loop: one channel's transcription

\* tempfile.mkstemp(suffix=".wav"): a name no existing file has.
mkstemp(tf) == CHOOSE n \in 1..(Cardinality(tf) + 1) : n \notin tf

finally_unlink_OnSuccessOnly(tf, p, raised) == IF raised THEN tf ELSE tf \ {p}

\* "finally: os.unlink(path)" on a path that exists; raised tells whether the
\* try block ended by an exception, which a finally clause does not look at.
finally_unlink(tf, p, raised) == tf \ {p}

Usable_CaseSensitive(txt) == txt # "" /\ txt # "you"

\* text != '' and text.lower() != 'you'
Usable(txt) == txt # "" /\ Lower(txt) # "you"

DataOf(who) == IF who = "You" THEN mic_data ELSE speaker_data

HasData_Always(d) == TRUE

\* "if mic_data:" and "if speaker_data:": the list is not empty.
HasData(d) == Len(d) > 0
BlockPc(who) == IF who = "You" THEN "mic" ELSE "speaker"
ModelPc(who) == IF who = "You" THEN "mic_model" ELSE "speaker_model"
AfterPc_Redrain(who) == IF who = "You" THEN "drain_speaker" ELSE "apply"
AfterPc(who) == IF who = "You" THEN "speaker" ELSE "apply"

\* Lines 109-114 (You) and 126-131 (Speaker): the test of the drained list,
\* then mkstemp, os.close and process_data_func.  When mkstemp raises, the
\* except clause prints and the finally clause runs os.unlink(path) on a
\* local that is unbound or names a file already removed: that raises
\* outside any try, out of the "while True".
Package(who) ==
    /\ pc = BlockPc(who)
    /\ \/ /\ ~HasData(DataOf(who))
          /\ pc' = AfterPc(who)
          /\ UNCHANGED <<tempfiles, path, outcome, wav>>
       \/ /\ HasData(DataOf(who))
          /\ \/ \* mkstemp raises
                /\ outcome' = [outcome EXCEPT ![who] = <<"package_failed", "">>]
                /\ IF path \in tempfiles
                   THEN /\ tempfiles' = finally_unlink(tempfiles, path, TRUE)
                        /\ pc' = AfterPc(who)
                   ELSE /\ pc' = "died_in_finally"
                        /\ UNCHANGED tempfiles
                /\ UNCHANGED <<path, wav>>
             \/ \* mkstemp succeeds, process_data_func raises
                /\ path' = mkstemp(tempfiles)
                /\ tempfiles' = finally_unlink(tempfiles \cup {path'}, path', TRUE)
                /\ outcome' = [outcome EXCEPT ![who] = <<"package_failed", "">>]
                /\ pc' = AfterPc(who)
                /\ UNCHANGED wav
             \/ \* process_data_func(source_info["last_sample"], path)
                \* writes the buffer to the temporary file
                /\ path' = mkstemp(tempfiles)
                /\ tempfiles' = tempfiles \cup {path'}
                /\ wav' = audio_sources[who].last_sample
                /\ pc' = ModelPc(who)
                /\ UNCHANGED outcome
    /\ UNCHANGED <<clock, audio_sources, storeVars, queueVars, mic_data,
                   speaker_data, pending_transcriptions, idx, f, mainVars,
                   last_call, apiVars, tick_start, histVars>>

\* Lines 115-124 (You) and 132-141 (Speaker): get_transcription returns or
\* raises, the filter, the pending result stamped datetime.utcnow(), and
\* the finally clause.
Transcribe(who) ==
    /\ pc = ModelPc(who)
    /\ \/ \* get_transcription raises
          /\ outcome' = [outcome EXCEPT ![who] = <<"model_failed", "">>]
          /\ tempfiles' = finally_unlink(tempfiles, path, TRUE)
          /\ UNCHANGED pending_transcriptions
       \/ \E txt \in Texts :
          /\ IF Usable(txt)
             THEN pending_transcriptions' =
                        Append(pending_transcriptions, <<who, txt, clock>>)
             ELSE UNCHANGED pending_transcriptions
          /\ outcome' = [outcome EXCEPT ![who] = <<"returned", txt>>]
          /\ tempfiles' = finally_unlink(tempfiles, path, FALSE)
    /\ pc' = AfterPc(who)
    /\ wav' = <<>>
    /\ UNCHANGED <<clock, audio_sources, storeVars, queueVars, mic_data,
                   speaker_data, path, idx, f, mainVars, last_call, apiVars,
                   tick_start, histVars>>

\* ------------------------------------------------ the loop: applying results

SortByTime_Descending(p) ==
    IF Len(p) = 2 /\ p[1][3] < p[2][3] THEN <<p[2], p[1]>> ELSE p

\* pending_transcriptions.sort(key=lambda x: x[2]) on at most two results
\* (a stable sort).
SortByTime(p) ==
    IF Len(p) = 2 /\ p[1][3] > p[2][3] THEN <<p[2], p[1]>> ELSE p

UpdateCall(who, txt, time_spoken) ==
    [op |-> "update", who |-> who, txt |-> txt, t |-> time_spoken,
     data |-> <<>>, pre_transcript |-> transcript_data[who],
     pre_source |-> audio_sources[who]]

Apply_AlwaysSignal ==
    /\ pc = "apply"
    /\ IF Len(pending_transcriptions) = 0
       THEN /\ pc' = "signal"
            /\ UNCHANGED <<pending_transcriptions, idx>>
       ELSE /\ pending_transcriptions' = SortByTime(pending_transcriptions)
            /\ idx' = 1
            /\ pc' = "update"
    /\ UNCHANGED <<clock, audio_sources, storeVars, tempfiles, queueVars,
                   mic_data, speaker_data, path, f, outcome, mainVars,
                   last_call, apiVars, tick_start, wav, histVars>>

\* Lines 143-144: the test of pending_transcriptions and the sort.
Apply ==
    /\ pc = "apply"
    /\ IF Len(pending_transcriptions) = 0
       THEN /\ pc' = "sleep"
            /\ UNCHANGED <<pending_transcriptions, idx>>
       ELSE /\ pending_transcriptions' = SortByTime(pending_transcriptions)
            /\ idx' = 1
            /\ pc' = "update"
    /\ UNCHANGED <<clock, audio_sources, storeVars, tempfiles, queueVars,
                   mic_data, speaker_data, path, f, outcome, mainVars,
                   last_call, apiVars, tick_start, wav, histVars>>

\* Lines 145-146: one turn of the for loop.
Update ==
    /\ pc = "update"
    /\ LET who_spoke == pending_transcriptions[idx][1]
           txt == pending_transcriptions[idx][2]
           time_spoken == pending_transcriptions[idx][3]
       IN  /\ transcript_data' = [transcript_data EXCEPT ![who_spoke] =
                    update_transcript(@, audio_sources[who_spoke].new_phrase,
                                      who_spoke, txt, time_spoken)]
           /\ last_call' = UpdateCall(who_spoke, txt, time_spoken)
    /\ idx' = idx + 1
    /\ pc' = IF idx = Len(pending_transcriptions) THEN "signal" ELSE "update"
    /\ UNCHANGED <<clock, audio_sources, transcript_changed_event,
                   transcript_file_path, files, tempfiles, queueVars,
                   mic_data, speaker_data, pending_transcriptions, path, f,
                   outcome, mainVars, apiVars, tick_start, wav, histVars>>

Event_set_Unchanged(flag) == flag

\* threading.Event.set(): the internal flag becomes true.
Event_set(flag) == TRUE

\* Line 148: self.transcript_changed_event.set()
Signal ==
    /\ pc = "signal"
    /\ transcript_changed_event' = Event_set(transcript_changed_event)
    /\ pc' = "write_open"
    /\ UNCHANGED <<clock, audio_sources, transcript_data,
                   transcript_file_path, files, tempfiles, queueVars,
                   loopLocals, mainVars, last_call, apiVars,
                   tick_start, wav, histVars>>

\* Lines 215-217 of write_transcript_to_file: open(path, 'w') truncates the
\* file and the header is written; an OSError is caught nowhere.
WriteOpen ==
    /\ pc = "write_open"
    /\ \/ /\ f' = transcript_file_path
          /\ files' = WriteFile(files, transcript_file_path,
                                UpdatedHeader(clock), <<>>)
          /\ pc' = "write_body"
       \/ /\ pc' = "died_in_write"
          /\ UNCHANGED <<f, files>>
    /\ UNCHANGED <<clock, audio_sources, transcript_data,
                   transcript_changed_event, transcript_file_path, tempfiles,
                   queueVars, mic_data, speaker_data, pending_transcriptions,
                   path, idx, outcome, mainVars, last_call, apiVars,
                   tick_start, wav, histVars>>

\* Line 218: f.write(self.get_transcript()), then the file is closed.
WriteBody ==
    /\ pc = "write_body"
    /\ \/ /\ files' = WriteFile(files, f, files[f][1],
                                get_transcript(transcript_data))
          /\ pc' = "sleep"
       \/ /\ pc' = "died_in_write"
          /\ UNCHANGED files
    /\ f' = NoTime
    /\ UNCHANGED <<clock, audio_sources, transcript_data,
                   transcript_changed_event, transcript_file_path, tempfiles,
                   queueVars, mic_data, speaker_data, pending_transcriptions,
                   path, idx, outcome, mainVars, last_call, apiVars,
                   tick_start, wav, histVars>>

\* Line 152, then lines 89 and 91 of the next turn: the wait ends and the
\* per-tick lists are emptied.
Sleep ==
    /\ pc = "sleep"
    /\ pc' = "drain_mic"
    /\ pending_transcriptions' = <<>>
    /\ mic_data' = <<>>
    /\ idx' = 0
    /\ outcome' = NoOutcome
    /\ tick_start' = StoreNow
    /\ UNCHANGED <<clock, audio_sources, storeVars, tempfiles, queueVars,
                   speaker_data, path, f, mainVars, last_call, apiVars,
                   wav, histVars>>

\* ------------------------------------------- the main thread: cleanup()

ClearCall(who) ==
    [op |-> "clear", who |-> who, txt |-> "", t |-> NoTime, data |-> <<>>,
     pre_transcript |-> transcript_data[who],
     pre_source |-> audio_sources[who]]

\* src/main.py cleanup(), entered from signal_handler, from the finally
\* clause of main() and from atexit, while the daemon loop thread runs.
CleanupStart ==
    /\ main_pc = "run"
    /\ cleanups < MaxCleanups
    /\ main_pc' = "clear_you"
    /\ UNCHANGED <<clock, audio_sources, storeVars, tempfiles, queueVars, pc,
                   loopLocals, cleanups, last_call, apiVars,
                   tick_start, wav, histVars>>

\* Lines 201-202 of clear_transcript_data: one list is cleared.
ClearList(who) ==
    /\ main_pc = (IF who = "You" THEN "clear_you" ELSE "clear_speaker")
    /\ transcript_data' = [transcript_data EXCEPT ![who] = <<>>]
    /\ last_call' = ClearCall(who)
    /\ main_pc' = (IF who = "You" THEN "clear_speaker" ELSE "sample_you")
    /\ UNCHANGED <<clock, audio_sources, transcript_changed_event,
                   transcript_file_path, files, tempfiles, queueVars, pc,
                   loopLocals, cleanups, apiVars, tick_start, wav, histVars>>

\* Lines 204-205: one channel's last_sample = bytes().
ClearSample(who) ==
    /\ main_pc = (IF who = "You" THEN "sample_you" ELSE "sample_speaker")
    /\ audio_sources' = [audio_sources EXCEPT ![who].last_sample = <<>>]
    /\ last_call' = ClearCall(who)
    /\ main_pc' = (IF who = "You" THEN "sample_speaker" ELSE "phrase_you")
    /\ UNCHANGED <<clock, storeVars, tempfiles, queueVars, pc, loopLocals,
                   cleanups, apiVars, tick_start, wav, histVars>>

\* Lines 207-208: one channel's new_phrase = True.
ClearPhrase(who) ==
    /\ main_pc = (IF who = "You" THEN "phrase_you" ELSE "phrase_speaker")
    /\ audio_sources' = [audio_sources EXCEPT ![who].new_phrase = TRUE]
    /\ last_call' = ClearCall(who)
    /\ main_pc' = (IF who = "You" THEN "phrase_speaker" ELSE "new_path")
    /\ UNCHANGED <<clock, storeVars, tempfiles, queueVars, pc, loopLocals,
                   cleanups, apiVars, tick_start, wav, histVars>>

\* Lines 77-78 of create_new_transcript_file: the path of the new file.
NewPath ==
    /\ main_pc = "new_path"
    /\ transcript_file_path' = TranscriptPath(clock)
    /\ main_pc' = "new_file"
    /\ UNCHANGED <<clock, audio_sources, transcript_data,
                   transcript_changed_event, files, tempfiles, queueVars, pc,
                   loopLocals, cleanups, last_call, apiVars,
                   tick_start, wav, histVars>>

\* Lines 82-83: the file is opened for writing and gets its first header;
\* an exception ends clear_transcript_data and is caught in cleanup().
NewFile ==
    /\ main_pc = "new_file"
    /\ \/ files' = WriteFile(files, transcript_file_path,
                             StartedHeader(clock), <<>>)
       \/ UNCHANGED files
    /\ main_pc' = "run"
    /\ cleanups' = cleanups + 1
    /\ UNCHANGED <<clock, audio_sources, transcript_data,
                   transcript_changed_event, transcript_file_path, tempfiles,
                   queueVars, pc, loopLocals, last_call, apiVars,
                   tick_start, wav, histVars>>

\* ------------------------------------------------------- the specification

\* The loop thread and the two capture threads.
Next ==
    \/ record_callback("You") \/ record_callback("Speaker")
    \/ DrainMic \/ DrainSpeaker
    \/ Package("You") \/ Transcribe("You")
    \/ Package("Speaker") \/ Transcribe("Speaker")
    \/ Apply \/ Update \/ Signal \/ WriteOpen \/ WriteBody \/ Sleep

Spec == Init /\ [][Next]_vars

\* A step of the loop thread.
LoopStep ==
    \/ DrainMic \/ DrainSpeaker
    \/ Package("You") \/ Transcribe("You")
    \/ Package("Speaker") \/ Transcribe("Speaker")
    \/ Apply \/ Update \/ Signal \/ WriteOpen \/ WriteBody \/ Sleep

\* Spec with the loop thread scheduled fairly: it takes its next step
\* whenever it has one, so every call it makes returns or raises; the
\* producers may stop at any time.
SpecFair == Init /\ [][Next]_vars /\ WF_vars(LoopStep)

\* The same with the main thread running cleanup() beside them; the
\* recorders are stopped by cleanup() only after clear_transcript_data, so
\* captures go on throughout.
NextShutdown ==
    \/ (nchunks < MaxShutdownChunks /\ record_callback("You"))
    \/ (nchunks < MaxShutdownChunks /\ record_callback("Speaker"))
    \/ DrainMic \/ DrainSpeaker
    \/ Package("You") \/ Transcribe("You")
    \/ Package("Speaker") \/ Transcribe("Speaker")
    \/ Apply \/ Update \/ Signal \/ WriteOpen \/ WriteBody \/ Sleep
    \/ CleanupStart
    \/ ClearList("You") \/ ClearList("Speaker")
    \/ ClearSample("You") \/ ClearSample("Speaker")
    \/ ClearPhrase("You") \/ ClearPhrase("Speaker")
    \/ NewPath \/ NewFile

SpecShutdown == Init /\ [][NextShutdown]_vars

\* ------------------------------ the interface-level specification SpecApi
\* The public methods called one at a time on an AudioTranscriber that has
\* already run for a while, with the clock read as the loop reads it.

\* An entry list n phrases long, newest first, its times 2 units apart;
\* late = 1 puts the channel's entries one unit before the other channel's.
Prefill(who, n, late) ==
    [i \in 1..n |-> Entry(who, "hi", 2 * (n - i + 1) - late)]

PrefillSource(info, transcript, new_phrase) ==
    IF Len(transcript) = 0 THEN info
    ELSE [info EXCEPT !.last_sample = <<0>>,
                      !.last_spoken = transcript[1][2],
                      !.new_phrase = new_phrase]

InitApi ==
    /\ clock = 2 * MAX_PHRASES
    /\ \E ny \in PrefillLens, ns \in PrefillLens, late \in {0, 1} :
          transcript_data = [who \in Channels |->
                IF who = "You" THEN Prefill(who, ny, 0)
                               ELSE Prefill(who, ns, late)]
    /\ \E fy \in BOOLEAN, fs \in BOOLEAN :
          audio_sources = [who \in Channels |->
                IF who = "You"
                THEN PrefillSource(SourceInfo(16000, 2, 1),
                                   transcript_data[who], fy)
                ELSE PrefillSource(SourceInfo(48000, 2, 2),
                                   transcript_data[who], fs)]
    /\ transcript_changed_event =
            (\E who \in Channels : Len(transcript_data[who]) > 0)
    /\ transcript_file_path = TranscriptPath(0)
    /\ files = IF transcript_changed_event
               THEN WriteFile(<<>>, TranscriptPath(0), UpdatedHeader(clock),
                              get_transcript(transcript_data))
               ELSE WriteFile(<<>>, TranscriptPath(0), StartedHeader(0), <<>>)
    /\ tempfiles = {}
    /\ mic_queue = <<>>
    /\ speaker_queue = <<>>
    /\ nchunks = 0
    /\ pc = "api"
    /\ mic_data = <<>>
    /\ speaker_data = <<>>
    /\ pending_transcriptions = <<>>
    /\ path = NoPath
    /\ idx = 0
    /\ f = NoTime
    /\ outcome = NoOutcome
    /\ main_pc = "run"
    /\ cleanups = 0
    /\ last_call = NoCall
    /\ rendered = <<>>
    /\ calls = 0
    /\ tick_start = StoreNow
    /\ wav = <<>>
    /\ pushed = [who \in Channels |-> <<>>]
    /\ segmented = [who \in Channels |-> <<>>]
    /\ frozen = [who \in Channels |-> {}]

apiFrame == <<tempfiles, queueVars, pc, loopLocals, mainVars, tick_start,
              wav, histVars>>

\* update_last_sample_and_phrase_status(who, data, t) for a chunk captured
\* d units after the clock's last reading.
ApiSegment(who) ==
    /\ calls < MaxCalls
    /\ \E d \in ApiGaps :
        /\ clock' = clock + d
        /\ audio_sources' = [audio_sources EXCEPT ![who] =
                update_last_sample_and_phrase_status(@, <<calls + 1>>, clock')]
        /\ last_call' = SegmentCall(who, <<calls + 1>>, clock')
    /\ calls' = calls + 1
    /\ UNCHANGED <<storeVars, rendered, apiFrame>>

\* update_transcript(who, text, datetime.utcnow())
ApiUpdate(who) ==
    /\ calls < MaxCalls
    /\ \E txt \in ApiTexts, d \in {0, 1} :
        /\ clock' = clock + d
        /\ transcript_data' = [transcript_data EXCEPT ![who] =
                update_transcript(@, audio_sources[who].new_phrase,
                                  who, txt, clock')]
        /\ last_call' = UpdateCall(who, txt, clock')
    /\ calls' = calls + 1
    /\ UNCHANGED <<audio_sources, transcript_changed_event,
                   transcript_file_path, files, rendered, apiFrame>>

\* clear_transcript_data(), from its first statement to its return.
ApiClear ==
    /\ calls < MaxCalls
    /\ transcript_data' = [who \in Channels |-> <<>>]
    /\ audio_sources' = [who \in Channels |->
            [audio_sources[who] EXCEPT !.last_sample = <<>>,
                                       !.new_phrase = TRUE]]
    /\ transcript_file_path' = TranscriptPath(clock)
    /\ files' = WriteFile(files, transcript_file_path', StartedHeader(clock),
                          <<>>)
    /\ last_call' = ClearCall("You")
    /\ calls' = calls + 1
    /\ UNCHANGED <<clock, transcript_changed_event, rendered, apiFrame>>

RenderCall ==
    [op |-> "render", who |-> "You", txt |-> "", t |-> NoTime, data |-> <<>>,
     pre_transcript |-> <<>>, pre_source |-> SourceInfo(0, 0, 0)]

ApiRender_Consuming ==
    /\ calls < MaxCalls
    /\ rendered' = get_transcript(transcript_data)
    /\ transcript_data' = [who \in Channels |-> <<>>]
    /\ last_call' = RenderCall
    /\ calls' = calls + 1
    /\ UNCHANGED <<clock, audio_sources, transcript_changed_event,
                   transcript_file_path, files, apiFrame>>

\* get_transcript()
ApiRender ==
    /\ calls < MaxCalls
    /\ rendered' = get_transcript(transcript_data)
    /\ last_call' = RenderCall
    /\ calls' = calls + 1
    /\ UNCHANGED <<clock, audio_sources, storeVars, apiFrame>>

NextApi ==
    \/ ApiSegment("You") \/ ApiSegment("Speaker")
    \/ ApiUpdate("You") \/ ApiUpdate("Speaker")
    \/ ApiClear
    \/ ApiRender

SpecApi == InitApi /\ [][NextApi]_vars

\* ------------------------------------------------------------------ claims

\* The list the last call left and the list it found.
CurTranscript == transcript_data[last_call.who]
PreTranscript == last_call.pre_transcript
\* The last call was update_transcript on the insert branch (line 186 true).
InsertCase ==
    /\ last_call.op = "update"
    /\ last_call.pre_source.new_phrase \/ Len(PreTranscript) = 0
\* The last call was update_transcript on the overwrite branch.
OverwriteCase ==
    /\ last_call.op = "update"
    /\ ~last_call.pre_source.new_phrase
    /\ Len(PreTranscript) > 0

IsPrefix(a, b) == Len(a) <= Len(b) /\ \A i \in 1..Len(a) : a[i] = b[i]

\* C1: in every reachable state each channel's entry list holds at most
\* MAX_PHRASES entries (11 new-phrase updates leave exactly 10).
C1_AtMostMaxPhrases ==
    \A who \in Channels : Len(transcript_data[who]) <= MAX_PHRASES

C3_OverwriteInPlace ==
    OverwriteCase =>
        /\ Len(CurTranscript) = Len(PreTranscript)
        /\ CurTranscript[1][1] =
                <<last_call.who, last_call.t \div UnitsPerSecond, last_call.txt>>
        /\ CurTranscript[1][2] = last_call.t
        /\ \A i \in 2..Len(PreTranscript) : CurTranscript[i] = PreTranscript[i]

\* "hi" then "hi there" in the same phrase: one entry, with the latest text.
C3_Witness ==
    /\ OverwriteCase
    /\ last_call.who = "You"
    /\ Len(PreTranscript) = 1
    /\ PreTranscript[1][1][3] = "hi"
    /\ last_call.txt = "hi there"
    /\ Len(CurTranscript) = 1
    /\ CurTranscript[1][1][3] = "hi there"

\* The gap the last segmenter call saw, when lastSpokenAt was set.
SegmentGap == last_call.t - last_call.pre_source.last_spoken

\* C4: a segmenter update sets isNewPhrase and resets the buffer to the
\* chunk's payload iff lastSpokenAt was set and t - lastSpokenAt >
\* PHRASE_TIMEOUT; in every other case, the first chunk included, it clears
\* isNewPhrase and appends the payload to the buffer.
C4_BoundaryIffGapExceedsTimeout ==
    last_call.op = "segment" =>
        LET cur == audio_sources[last_call.who]
            pre == last_call.pre_source
        IN  IF pre.last_spoken # NoTime /\ SegmentGap >= PHRASE_TIMEOUT + 1
            THEN cur.new_phrase /\ cur.last_sample = last_call.data
            ELSE /\ ~cur.new_phrase
                 /\ cur.last_sample = pre.last_sample \o last_call.data

\* A chunk exactly PHRASE_TIMEOUT after the previous one continues the phrase.
C4_Witness ==
    /\ last_call.op = "segment"
    /\ last_call.pre_source.last_spoken # NoTime
    /\ SegmentGap = PHRASE_TIMEOUT
    /\ ~audio_sources[last_call.who].new_phrase
    /\ Len(audio_sources[last_call.who].last_sample) >= 2

\* The entries get_transcript renders, in order, and the channel of one.
Combined == combined_transcript(transcript_data)
ChannelOf(e) == e[1][1]
OfChannel(c, who) == SelectSeq(c, LAMBDA e : ChannelOf(e) = who)
\* get_transcript returned the lines of the entries c, in order.
Renders(out, c) ==
    /\ Len(out) = 3 * Len(c)
    /\ \A k \in 1..Len(c) :
        /\ out[3 * k - 2] = ChannelOf(c[k])
        /\ out[3 * k - 1] = c[k][2] \div UnitsPerSecond
        /\ out[3 * k] = c[k][1][3]

\* What C5 says of the rendered entries c: most recent first (spokenAt
\* non-increasing); the entries of one channel keep their order and
\* on equal times the "You" entry comes before the "Speaker" entry.
NewestFirst(c) ==
    /\ \A i \in 1..Len(c) - 1 : c[i][2] >= c[i + 1][2]
    /\ \A i \in 1..Len(c) - 1 :
          (c[i][2] = c[i + 1][2] /\ ChannelOf(c[i]) = "Speaker")
              => ChannelOf(c[i + 1]) = "Speaker"
    /\ \A who \in Channels : IsPrefix(OfChannel(c, who), transcript_data[who])
    /\ last_call.op = "render" => Renders(rendered, c)

\* C5: the entries get_transcript renders are newest first, stably merged.
C5_MergedNewestFirst == LET c == Combined IN NewestFirst(c)

\* A render of entries of both channels, two of them with the same time.
C5_Witness ==
    /\ last_call.op = "render"
    /\ Len(rendered) >= 3 * 4
    /\ \E i \in 1..Len(Combined) - 1 :
          /\ Combined[i][2] = Combined[i + 1][2]
          /\ ChannelOf(Combined[i]) = "You"
          /\ ChannelOf(Combined[i + 1]) = "Speaker"
    /\ \E i \in 1..Len(Combined) - 1 : Combined[i][2] > Combined[i + 1][2]

TotalEntries == Len(transcript_data["You"]) + Len(transcript_data["Speaker"])

\* What C6 says of the rendered entries c: at most MAX_PHRASES, and when
\* the two lists hold more, the rendered ones are the MAX_PHRASES most
\* recent of both lists: no entry left out is more recent than one rendered.
MostRecentOnly(c) ==
    /\ Len(c) = Min(TotalEntries, MAX_PHRASES)
    /\ \A who \in Channels :
          LET kept == OfChannel(c, who)
          IN  /\ IsPrefix(kept, transcript_data[who])
              /\ \A i \in (Len(kept) + 1)..Len(transcript_data[who]) :
                    \A j \in 1..Len(c) :
                        transcript_data[who][i][2] <= c[j][2]
    /\ last_call.op = "render" => Len(rendered) <= 3 * MAX_PHRASES

\* C6: get_transcript renders only the MAX_PHRASES most recent entries.
C6_MergeCap == LET c == Combined IN MostRecentOnly(c)

\* A render of more than MAX_PHRASES entries, some of each channel left out.
C6_Witness ==
    /\ last_call.op = "render"
    /\ TotalEntries > MAX_PHRASES
    /\ Len(rendered) = 3 * MAX_PHRASES
    /\ \A who \in Channels :
          /\ Len(OfChannel(Combined, who)) > 0
          /\ Len(OfChannel(Combined, who)) < Len(transcript_data[who])

\* ------------------------------------------------- claims about the loop

\* A result the spec calls a non-result: empty, or "you" in any case.
NonResult(txt) == txt \in {"", "you", "You", "YOU"}
\* The channel's processing in this tick ended by an exception.
Failed(who) == outcome[who][1] \in {"package_failed", "model_failed"}
\* No channel has, so far in this tick, got a text other than a non-result.
OnlyNonResults ==
    \A who \in Channels :
        outcome[who][1] = "returned" => NonResult(outcome[who][2])

\* C7: a result that is "" or "you" in any case never produces a store
\* update: while a tick has got no other text, both entry lists, the
\* transcript-changed signal and the transcript file are as the tick found
\* them, and no such text is among the pending results.
C7_NonResultLeavesStore ==
    /\ OnlyNonResults => StoreNow = tick_start
    /\ \A i \in 1..Len(pending_transcriptions) :
          ~NonResult(pending_transcriptions[i][2])

\* A tick that ends with "You" for one channel and "" for the other, after
\* an earlier tick stored a phrase.
C7_Witness ==
    /\ pc = "sleep"
    /\ outcome["You"] = <<"returned", "You">>
    /\ outcome["Speaker"] = <<"returned", "">>
    /\ Len(transcript_data["You"]) > 0
    /\ transcript_changed_event

\* C8: a failure of the model call or of the packaging step for a channel is
\* "no result for this tick": the channel's entry list is as the tick found
\* it, and the failure does not end the loop.
C8_FailureStaysInLoop ==
    \A who \in Channels :
        Failed(who) =>
            /\ transcript_data[who] = tick_start.transcript_data[who]
            /\ pc # "died_in_finally"

\* C9: a failure in the "You" channel's processing, in a tick that drained
\* Speaker chunks, does not keep the Speaker buffer from being transcribed.
C9_SpeakerStillProcessed ==
    ~(/\ Failed("You")
      /\ Len(speaker_data) > 0
      /\ outcome["Speaker"][1] = "none"
      /\ pc \notin {"speaker", "speaker_model"})

\* C10: the temporary audio unit is removed on every exit path of a
\* channel's processing: one exists only while that channel's model call is
\* in flight, so none exists when the loop reaches its sleep step.
C10_TempFileRemoved ==
    /\ pc = "sleep" => tempfiles = {}
    /\ tempfiles # {} =>
          /\ pc \in {"mic_model", "speaker_model"}
          /\ tempfiles = {path}

\* The sleep step after a packaging failure on one channel and a model
\* failure on the other.
C10_Witness ==
    /\ pc = "sleep"
    /\ outcome["You"][1] = "package_failed"
    /\ outcome["Speaker"][1] = "model_failed"
    /\ tempfiles = {}

\* C11: a failure to write the transcript file in a tick does not halt the
\* loop: the entry lists keep the tick's updates and the loop goes on to
\* later ticks.
C11_WriteFailureStaysInLoop ==
    /\ pc # "died_in_write"
    /\ pc \in {"write_open", "write_body", "sleep"}
          => \A i \in 1..Len(pending_transcriptions) :
                LET r == pending_transcriptions[i]
                IN  transcript_data[r[1]][1] = Entry(r[1], r[2], r[3])

\* The loop thread is inside a tick: past the start of the draining and
\* not yet in the wait that ends the turn.
MidTick ==
    pc \in {"drain_speaker", "mic", "mic_model", "speaker", "speaker_model",
            "apply", "update", "signal", "write_open", "write_body"}

\* A step of the main thread inside clear_transcript_data.
MainThreadStep == main_pc # "run" /\ main_pc' # main_pc

\* C12: the entry lists and each channel's buffer, lastSpokenAt and
\* isNewPhrase are written only by the loop thread: no step of the main
\* thread's cleanup changes them while the loop thread is inside a tick.
C12_OnlyLoopThreadWrites ==
    [][(MainThreadStep /\ MidTick)
          => <<transcript_data, audio_sources>>' = <<transcript_data, audio_sources>>]_vars

QueueOf(who) == IF who = "You" THEN mic_queue ELSE speaker_queue

\* C13: every chunk pushed on a channel's queue is either still waiting on
\* that queue or was handed to that channel's segmenter, once and in the
\* order of the pushes, while the producers push beside the loop; the
\* chunks the tick collected for a channel are the last ones handed to that
\* channel's segmenter.
C13_EachChunkSegmentedOnce ==
    /\ \A who \in Channels : pushed[who] = segmented[who] \o QueueOf(who)
    /\ \A who \in Channels : \A i \in 1..Len(DataOf(who)) :
          /\ Len(segmented[who]) >= Len(DataOf(who))
          /\ DataOf(who)[i] =
                segmented[who][Len(segmented[who]) - Len(DataOf(who)) + i]

\* One channel has had two chunks handed over in one drain while a chunk
\* pushed on the other channel during the tick is still waiting.
C13_Witness ==
    \E who \in Channels, other \in Channels :
        /\ who # other
        /\ Len(segmented[who]) >= 2
        /\ Len(DataOf(who)) >= 2
        /\ Len(QueueOf(other)) >= 1
        /\ pc \notin {"drain_mic", "drain_speaker"}

\* The tick applied its results and is past line 148.
Signalled ==
    /\ pc \in {"write_open", "write_body", "sleep", "died_in_write"}
    /\ Len(pending_transcriptions) > 0

\* C14: once a tick has applied at least one usable result the
\* transcript-changed signal is set; a tick that applied none leaves the
\* signal as it found it; and no step of the loop or of
\* clear_transcript_data takes a set signal back.
C14_SignalSetAndKept ==
    /\ [](Signalled => transcript_changed_event)
    /\ [](~Signalled => (transcript_changed_event
                            = tick_start.transcript_changed_event))
    /\ [][transcript_changed_event => transcript_changed_event']_vars

\* A tick set the signal, clear_transcript_data ran to its end, and a later
\* tick without a result has finished: the signal is still set.
C14_Witness ==
    /\ transcript_changed_event
    /\ tick_start.transcript_changed_event
    /\ pc = "sleep"
    /\ Len(pending_transcriptions) = 0
    /\ cleanups >= 1
    /\ last_call.op = "clear"

\* The concatenation of the payloads of the chunks of the phrase that is
\* open after the chunks s = <<data, time_spoken>>... were segmented: the
\* phrase starts at the last chunk that came more than PHRASE_TIMEOUT after
\* the chunk before it, or at the first chunk.
RECURSIVE PhraseAudio(_)
PhraseAudio(s) ==
    IF Len(s) = 0 THEN <<>>
    ELSE LET n == Len(s)
         IN  IF n > 1 /\ s[n][2] - s[n - 1][2] > PHRASE_TIMEOUT
             THEN s[n][1]
             ELSE PhraseAudio(SubSeq(s, 1, n - 1)) \o s[n][1]

\* The audio of the chunks a tick drained for a channel.
RECURSIVE DrainedAudio(_)
DrainedAudio(d) ==
    IF Len(d) = 0 THEN <<>> ELSE d[1][1] \o DrainedAudio(Tail(d))

\* C15: a channel's buffer is the concatenation, in arrival order, of the
\* payloads of the chunks since the last phrase start (the boundary chunk
\* included), and the audio written for the model is that whole buffer.
C15_BufferIsWholePhrase ==
    /\ \A who \in Channels :
          audio_sources[who].last_sample = PhraseAudio(segmented[who])
    /\ \A who \in Channels :
          pc = ModelPc(who) => wav = PhraseAudio(segmented[who])

\* The model is handed a phrase of two chunks of which the tick drained
\* only the second, on a channel that had a phrase boundary before.
C15_Witness ==
    \E who \in Channels :
        /\ pc = ModelPc(who)
        /\ Len(segmented[who]) = 3
        /\ Len(wav) = 2
        /\ Len(DrainedAudio(DataOf(who))) = 1

\* clear_transcript_data has returned and no call has changed the shared
\* state since its last statement.
ClearReturned ==
    /\ main_pc = "run"
    /\ cleanups >= 1
    /\ last_call.op = "clear"

\* C16: when clear_transcript_data returns, both entry lists are empty and
\* get_transcript gives the empty string.
C16_EmptyAfterClear ==
    ClearReturned =>
        /\ \A who \in Channels : transcript_data[who] = <<>>
        /\ get_transcript(transcript_data) = <<>>

\* A step that is a call of get_transcript.
RenderStep == calls' = calls + 1 /\ last_call'.op = "render"

\* C17: a call of get_transcript changes neither entry list, nor a
\* channel's buffer, lastSpokenAt or isNewPhrase, nor the signal, nor a
\* file; and a second call, with no other call between the two, returns
\* what the first returned.
C17_RenderChangesNothing ==
    [][RenderStep =>
          /\ UNCHANGED <<transcript_data, audio_sources,
                         transcript_changed_event, transcript_file_path,
                         files>>
          /\ last_call.op = "render" => rendered' = rendered]_vars

\* get_transcript has been called at least twice and the last call
\* returned a transcript that is not empty.
C17_Witness ==
    /\ last_call.op = "render"
    /\ calls >= 2
    /\ Len(rendered) > 0
    /\ rendered = get_transcript(transcript_data)

\* write_transcript_to_file has completed in this tick and the loop is in
\* the wait at the end of the turn.
WriteCompleted == pc = "sleep" /\ Len(pending_transcriptions) > 0

\* C18: after write_transcript_to_file completes, the current transcript
\* file holds a "Transcript updated at" header and then exactly what
\* get_transcript returns for the store at that moment; nothing of the
\* file's earlier content remains.
C18_FileIsHeaderPlusTranscript ==
    WriteCompleted =>
        /\ transcript_file_path \in DOMAIN files
        /\ Len(files[transcript_file_path]) = 2
        /\ files[transcript_file_path][1][1] = UpdatedHeader(clock)[1]
        /\ files[transcript_file_path][1][2] \in 0..strftime(clock)
        /\ files[transcript_file_path][2] = get_transcript(transcript_data)

\* The write replaced a file that an earlier tick had written with another
\* transcript.
C18_Witness ==
    /\ WriteCompleted
    /\ tick_start.files[transcript_file_path][2] # <<>>
    /\ tick_start.files[transcript_file_path][2]
            # files[transcript_file_path][2]
    /\ Len(files[transcript_file_path][2]) >= 2

\* C19: an entry that was at index 0 of its channel when a phrase boundary
\* was detected on that channel is never overwritten by a later result: it
\* stays in the channel's list.
C19_FrozenEntryKept ==
    \A who \in Channels : \A e \in frozen[who] :
        \E i \in 1..Len(transcript_data[who]) : transcript_data[who][i] = e

\* The results the loop has applied so far in this tick.
AppliedSoFar ==
    IF pc = "update" THEN idx - 1
    ELSE IF pc \in {"signal", "write_open", "write_body", "sleep",
                    "died_in_write"}
         THEN Len(pending_transcriptions)
         ELSE 0

\* The entry lists after the first k results of p were applied in the
\* order of p to the lists td, the channels' new_phrase being as they are.
RECURSIVE AppliedInOrder(_, _, _)
AppliedInOrder(td, p, k) ==
    IF k = 0 THEN td
    ELSE LET before == AppliedInOrder(td, p, k - 1)
             r == p[k]
         IN  [before EXCEPT ![r[1]] =
                update_transcript(@, audio_sources[r[1]].new_phrase,
                                  r[1], r[2], r[3])]

\* C20: in a tick with pending results the results are applied in
\* non-decreasing order of their timestamps; the signal and the file are
\* as the tick found them until every result is applied; the signal is set
\* before the file is opened for writing.
C20_OrderWithinTick ==
    /\ pc \in {"update", "signal", "write_open", "write_body"} =>
          /\ \A i \in 1..(Len(pending_transcriptions) - 1) :
                pending_transcriptions[i][3] <= pending_transcriptions[i + 1][3]
          /\ transcript_data =
                AppliedInOrder(tick_start.transcript_data,
                               pending_transcriptions, AppliedSoFar)
    /\ pc \in {"update", "signal"} =>
          /\ transcript_changed_event = tick_start.transcript_changed_event
          /\ files = tick_start.files
    /\ pc = "write_open" =>
          /\ transcript_changed_event
          /\ files = tick_start.files
    /\ pc = "write_body" => transcript_changed_event

\* Both channels produced a result in the tick, at different times, and
\* both have been applied.
C20_Witness ==
    /\ pc = "signal"
    /\ Len(pending_transcriptions) = 2
    /\ pending_transcriptions[1][3] < pending_transcriptions[2][3]

\* The model was called for the channel in this tick.
ModelCalled(who) == outcome[who][1] \in {"returned", "model_failed"}

\* Both transcription blocks of the tick are over.
BlocksOver ==
    pc \in {"apply", "update", "signal", "write_open", "write_body", "sleep"}

\* C21 as stated: when both blocks of a tick are over, the model was
\* called for a channel if and only if the tick drained a chunk of it.
C21_ModelCalledIffDrained ==
    BlocksOver =>
        \A who \in Channels : ModelCalled(who) <=> Len(DataOf(who)) > 0

\* C21 amended: the model is called for a channel only in a tick that
\* drained a chunk of it and only after both drains ended, at most once
\* per channel and tick, the call for You over before the block of
\* Speaker starts; a channel with drained chunks whose block is over had
\* its model call or a failure of the packaging before it.
C21_ModelCalledOnlyIfDrained ==
    /\ \A who \in Channels :
          pc = ModelPc(who) =>
              /\ Len(DataOf(who)) > 0
              /\ outcome[who][1] = "none"
    /\ \A who \in Channels : ModelCalled(who) => Len(DataOf(who)) > 0
    /\ pc \in {"mic", "mic_model"} => outcome = NoOutcome
    /\ pc \in {"drain_mic", "drain_speaker"} => outcome = NoOutcome
    /\ pc \in {"speaker", "speaker_model"} /\ Len(mic_data) > 0
          => outcome["You"][1] # "none"
    /\ BlocksOver =>
          \A who \in Channels :
              Len(DataOf(who)) > 0 => outcome[who][1] # "none"

\* The call for You has returned and the call for Speaker is in flight.
C21_Witness ==
    /\ pc = "speaker_model"
    /\ outcome["You"][1] = "returned"
    /\ Len(mic_data) > 0
    /\ Len(speaker_data) > 0

\* The tick has drained no chunk so far.
DrainedNothing ==
    /\ mic_data = <<>>
    /\ pc # "drain_mic" => speaker_data = <<>>

\* The position that follows pc in a tick that drained nothing.
EmptyTickNext(p) ==
    CASE p = "drain_mic" -> "drain_speaker"
      [] p = "drain_speaker" -> "mic"
      [] p = "mic" -> "speaker"
      [] p = "speaker" -> "apply"
      [] p = "apply" -> "sleep"
      [] p = "sleep" -> "drain_mic"
      [] OTHER -> p

\* C22: as long as a tick has drained nothing, every step leaves both
\* channels' buffer, lastSpokenAt and isNewPhrase, both entry lists, the
\* signal and the transcript file as they were, and the loop goes from one
\* position to the next without a model call and without stopping, until
\* it is at the drain of the next tick.
C22_EmptyTickChangesNothing ==
    [][(DrainedNothing /\ DrainedNothing') =>
            /\ UNCHANGED <<audio_sources, transcript_data,
                           transcript_changed_event, transcript_file_path,
                           files>>
            /\ pc' \in {pc, EmptyTickNext(pc)}
            /\ pc \in {"drain_mic", "drain_speaker", "mic", "speaker",
                       "apply", "sleep"}]_vars

\* A tick that found both queues empty is at its end, after an earlier
\* tick stored a phrase and set the signal.
C22_Witness ==
    /\ pc = "sleep"
    /\ DrainedNothing
    /\ outcome = NoOutcome
    /\ pending_transcriptions = <<>>
    /\ transcript_changed_event
    /\ \E who \in Channels : Len(transcript_data[who]) > 0

\* The entries of a list are newest first: time_spoken does not increase
\* from index 0 to the end.
SortedNewestFirst(transcript) ==
    \A i \in 1..(Len(transcript) - 1) :
        transcript[i][2] >= transcript[i + 1][2]

\* C23: in every reachable state each channel's entry list is ordered
\* newest first.
C23_ListsNewestFirst ==
    \A who \in Channels : SortedNewestFirst(transcript_data[who])

\* A channel holds three entries of different times.
C23_Witness ==
    \E who \in Channels :
        /\ Len(transcript_data[who]) >= 3
        /\ transcript_data[who][1][2] > transcript_data[who][2][2]
        /\ last_call.op = "update"

\* The capture time of the chunk last handed to a channel's segmenter.
LastSegmentedTime(who) ==
    IF Len(segmented[who]) = 0 THEN NoTime
    ELSE segmented[who][Len(segmented[who])][2]

\* C24: a channel's lastSpokenAt is the capture time of the chunk its
\* segmenter was last given and never decreases; its buffer is empty
\* before the channel's first chunk and not empty after any segmenter
\* update.
C24_LastSpokenAndBuffer ==
    /\ [](\A who \in Channels :
            /\ audio_sources[who].last_spoken = LastSegmentedTime(who)
            /\ (audio_sources[who].last_sample = <<>>)
                    <=> (Len(segmented[who]) = 0))
    /\ [][\A who \in Channels :
            audio_sources'[who].last_spoken
                >= audio_sources[who].last_spoken]_vars

\* A channel's second or later chunk opened a new phrase: the buffer was
\* reset and holds that chunk alone.
C24_Witness ==
    \E who \in Channels :
        /\ Len(segmented[who]) >= 2
        /\ last_call.op = "segment"
        /\ last_call.who = who
        /\ audio_sources[who].new_phrase
        /\ Len(audio_sources[who].last_sample) = 1
        /\ audio_sources[who].last_spoken > last_call.pre_source.last_spoken

\* C25: when clear_transcript_data has returned, both buffers are empty,
\* both isNewPhrase flags are true, both entry lists are empty and the
\* current transcript file is a fresh one that holds its first header
\* only; from then on a write changes no file but the current one.
C25_ClearResetsWholesale ==
    /\ [](ClearReturned =>
            /\ \A who \in Channels :
                  /\ audio_sources[who].last_sample = <<>>
                  /\ audio_sources[who].new_phrase
                  /\ transcript_data[who] = <<>>
            /\ transcript_file_path \in DOMAIN files
            /\ files[transcript_file_path][1][1] = StartedHeader(clock)[1]
            /\ files[transcript_file_path][2] = <<>>
            /\ transcript_file_path # TranscriptPath(0))
    /\ [][(cleanups >= 1 /\ main_pc = "run" /\ main_pc' = "run") =>
            \A p \in DOMAIN files :
                p # transcript_file_path => (p \in DOMAIN files'
                                             /\ files'[p] = files[p])]_vars

\* A transcription call is in flight: the loop thread is inside
\* get_transcription for one channel.
InFlight == pc \in {"mic_model", "speaker_model"}

\* C26: while a model call is in flight the loop thread takes nothing from
\* either queue and changes neither channel's buffer, lastSpokenAt or
\* isNewPhrase nor an entry list; chunks pushed meanwhile are put behind
\* those already queued and stay there; the only step the loop can take
\* is the end of the call.
C26_ModelCallBlocksLoop ==
    [][InFlight =>
          /\ UNCHANGED <<audio_sources, transcript_data, segmented>>
          /\ \A who \in Channels :
                IsPrefix(QueueOf(who), QueueOf(who)')
          /\ pc' # pc => pc' = (IF pc = "mic_model" THEN "speaker"
                                                     ELSE "apply")]_vars

\* Chunks were pushed on both queues while a call for You is in flight.
C26_Witness ==
    /\ pc = "mic_model"
    /\ Len(mic_queue) >= 1
    /\ Len(speaker_queue) >= 1

\* C27: whenever the loop is at the wait that ends a tick and
\* clear_transcript_data is not running, the text after the header of the
\* current transcript file is what get_transcript returns for the store.
C27_FileAgreesWithStore ==
    (pc = "sleep" /\ main_pc = "run") =>
        /\ transcript_file_path \in DOMAIN files
        /\ files[transcript_file_path][2] = get_transcript(transcript_data)

\* The capture format of a channel.
FormatOf(source_info) ==
    <<source_info.sample_rate, source_info.sample_width, source_info.channels>>

\* A step that is a segmenter update or a store update for channel who.
ChannelStep(who) ==
    /\ calls' = calls + 1
    /\ last_call'.op \in {"segment", "update"}
    /\ last_call'.who = who

\* C28: a segmenter update or a store update for one channel leaves the
\* other channel's buffer, lastSpokenAt, isNewPhrase and entry list as they
\* were, and no call (segmenter update, store update, clear, render)
\* changes a channel's sample rate, sample width or channel count.
C28_ChannelsIndependent ==
    [][/\ \A who \in Channels, other \in Channels :
            (ChannelStep(who) /\ other # who) =>
                /\ audio_sources'[other] = audio_sources[other]
                /\ transcript_data'[other] = transcript_data[other]
       /\ \A who \in Channels :
            FormatOf(audio_sources'[who]) = FormatOf(audio_sources[who])]_vars

\* A chunk of one channel opened a new phrase while the other channel has
\* entries, a buffer and its flag down.
C28_Witness ==
    \E who \in Channels, other \in Channels :
        /\ other # who
        /\ last_call.op = "segment"
        /\ last_call.who = who
        /\ audio_sources[who].new_phrase
        /\ ~audio_sources[other].new_phrase
        /\ Len(audio_sources[other].last_sample) > 0
        /\ Len(transcript_data[other]) > 0
        /\ FormatOf(audio_sources[who]) # FormatOf(audio_sources[other])

\* The payload data is part of the audio buffer.
Contains(buffer, data) ==
    \E i \in 1..(Len(buffer) - Len(data) + 1) :
        SubSeq(buffer, i, i + Len(data) - 1) = data

\* C29: every chunk a tick drained from a channel's queue is contained in
\* the audio handed to the model for that channel in that tick.
C29_DrainedAudioSubmitted ==
    \A who \in Channels :
        pc = ModelPc(who) =>
            \A i \in 1..Len(DataOf(who)) : Contains(wav, DataOf(who)[i][1])

\* C30: with the loop thread scheduled fairly, every model call returning
\* and finitely many chunks pushed, both queues are in the end drained for
\* good, and a tick that holds a usable result gets to the end of its
\* write of the transcript file.
C30_EverythingDrainedAndWritten ==
    /\ <>[](\A who \in Channels : QueueOf(who) = <<>>)
    /\ (Len(pending_transcriptions) > 0) ~> WriteCompleted

====
